---- MODULE Spec2Model ----
(***************************************************************************)
(* Model of snorkel/preprocess/core.py: the call behaviour of the          *)
(* `preprocessor` decorator class (preprocessor.__call__): memoization     *)
(* cache lookup, deep copy of the input data point, the chain of pre-steps,*)
(* the mapping function and the cache store.                               *)
(*                                                                         *)
(* Objects live in a heap and are referred to by their index, so that      *)
(* "the same object" (reference identity) and "the same fields" (value     *)
(* equality) are different things.  A data point has string fields and one *)
(* field, tags, that refers to a mutable list object of its own; the lists *)
(* live in a second heap.                                                  *)
(***************************************************************************)
EXTENDS Integers, Sequences, FiniteSets, TLC

VARIABLES
    heap,        \* data point objects: heap[r] is the field record of object r
    lists,       \* list objects: lists[heap[r].tags] is the tags list of r
    cache,       \* self._cache: memoization key -> reference (or None)
    memoize,     \* self.memoize
    pre,         \* self._pre: the ordered list of pre-steps
    mapfn,       \* the mapping function behind _generate_mapped_data_point
    keyfn,       \* the function behind self._memoize_key
    name,        \* self.name
    pc,          \* pc[t]: position of thread t in __call__
    x,           \* x[t]: the argument of the call
    x_hashable,  \* x_hashable[t]: <<>> until line 87 has run, then <<key>>
    x_mapped,    \* x_mapped[t]: the local of lines 92-99
    idx,         \* idx[t]: position of the for loop of line 94 in self._pre
    ret,         \* ret[t]: the value the call returned
    exc,         \* exc[t]: the exception the call raised, "none" if none
    trace,       \* trace[t]: the functions this call has invoked, in order
    hit,         \* hit[t]: the call returned at line 89
    cache0,      \* cache0[t]: the cache when the call started
    nmap0,       \* nmap0[t]: nmap when the call started
    nmap,        \* invocations of the mapping function so far
    nmapok       \* invocations of the mapping function that returned

conf == <<memoize, pre, mapfn, keyfn, name>>
locals == <<pc, x, x_hashable, x_mapped, idx, ret, exc>>
ghost == <<trace, hit, cache0, nmap0, nmap, nmapok>>
vars == <<heap, lists, cache, conf, locals, ghost>>

(***************************************************************************)
(* Bounds of the model.                                                    *)
(***************************************************************************)
\* Longest list of pre-steps a preprocessor is configured with.
MaxPre == 2
\* Deep copies made over the life of one preprocessor instance.
MaxCopies == 2

Threads == {"t1", "t2"}

\* The thread of single-threaded use.
Main == "t1"

\* The reference of Python's None (Optional[DataPoint]); objects are 1, 2, ...
NoneRef == 0

NoKey == <<>>

(***************************************************************************)
(* The caller's data points.  Inputs 1 and 2 share their title, input 3    *)
(* carries an article field already.                                       *)
(***************************************************************************)
InputPoints ==
    << [title |-> "A", body |-> "B", tags |-> 1],
       [title |-> "A", body |-> "C", tags |-> 2],
       [title |-> "C", body |-> "B", article |-> "C B", tags |-> 3] >>

InputLists == << <<>>, <<>>, <<"t">> >>

Inputs == 1..Len(InputPoints)

\* The fields of object r with the tags list by value: what == compares.
DeepValue(h, l, r) ==
    IF r = NoneRef THEN [none |-> TRUE]
    ELSE [f \in DOMAIN h[r] |-> IF f = "tags" THEN l[h[r].tags] ELSE <<h[r][f]>>]

SetField(rec, fld, val) ==
    [f \in DOMAIN rec \cup {fld} |-> IF f = fld THEN val ELSE rec[f]]

(***************************************************************************)
(* Mapping functions: the functions a user decorates, and the pre-steps.   *)
(* combine is the docstring's example; retitle changes a field in place;   *)
(* drop returns None; boom appends to the nested tags list in place and    *)
(* then raises for the data points titled "C".  All but drop read a field  *)
(* of their argument, which raises AttributeError on None.                 *)
(***************************************************************************)
Steps == {"combine", "retitle", "drop", "boom"}

Outcome(h, l, r, e) == [h |-> h, l |-> l, ret |-> r, exc |-> e]

Apply(fn, h, l, r) ==
    IF fn = "drop" THEN Outcome(h, l, NoneRef, "none")
    ELSE IF r = NoneRef THEN Outcome(h, l, NoneRef, "AttributeError")
    ELSE CASE fn = "combine" ->
                Outcome([h EXCEPT ![r] = SetField(@, "article", @.title \o " " \o @.body)],
                        l, r, "none")
           [] fn = "retitle" ->
                Outcome([h EXCEPT ![r].title = "C"], l, r, "none")
           [] fn = "boom" ->
                Outcome(h, [l EXCEPT ![h[r].tags] = Append(@, "t")], r,
                        IF h[r].title = "C" THEN "ValueError" ELSE "none")

(***************************************************************************)
(* self._memoize_key: "fields" hashes every field of x, "title" projects x *)
(* onto its title, "article" onto its article, which raises AttributeError *)
(* for a data point without one.                                           *)
(***************************************************************************)
KeyFns == {"fields", "title", "article"}

MemoizeKey(kf, h, l, r) ==
    CASE kf = "fields" -> [key |-> <<DeepValue(h, l, r)>>, exc |-> "none"]
      [] kf = "title" -> [key |-> <<h[r].title>>, exc |-> "none"]
      [] kf = "article" ->
            IF "article" \in DOMAIN h[r]
            THEN [key |-> <<h[r].article>>, exc |-> "none"]
            ELSE [key |-> NoKey, exc |-> "AttributeError"]

\* Mutant of DeepCopy: copy.copy(x), a new data point that shares the tags list.
ShallowCopy(h, l, r) ==
    [h |-> Append(h, h[r]), l |-> l, ref |-> Len(h) + 1]

\* Mutant of DeepCopy: x_mapped = x, no copy at all.
NoCopy(h, l, r) == [h |-> h, l |-> l, ref |-> r]

\* copy.deepcopy(x), line 92: a new data point with a new tags list.
DeepCopy(h, l, r) ==
    [h |-> Append(h, [h[r] EXCEPT !.tags = Len(l) + 1]),
     l |-> Append(l, l[h[r].tags]),
     ref |-> Len(h) + 1]

\* Mutant of CacheHit: self._cache.get(x_hashable) is not None, the lookup
\* the comment of line 86 warns against.
CacheHitTruthy(c, k) == k \in DOMAIN c /\ c[k] # NoneRef

\* Mutant of CacheStore: a cache that keeps the latest entry only.
CacheStoreEvict(c, k, v) == [j \in {k} |-> v]

\* Mutant of CacheHit: the membership test never succeeds.
CacheHitNever(c, k) == FALSE

\* x_hashable in self._cache, line 88
CacheHit(c, k) == k \in DOMAIN c

\* self._cache[x_hashable] = x_mapped, line 98
CacheStore(c, k, v) == [j \in DOMAIN c \cup {k} |-> IF j = k THEN v ELSE c[j]]

\* The key the running call computed at line 87.
Key(t) == x_hashable[t][1]

PreLists == UNION {[1..n -> Steps] : n \in 0..MaxPre}

Init ==
    /\ heap = InputPoints
    /\ lists = InputLists
    /\ cache = <<>>
    /\ memoize \in BOOLEAN
    /\ pre \in PreLists
    /\ mapfn \in Steps
    /\ keyfn \in IF memoize THEN KeyFns ELSE {"fields"}
    /\ name = "combine_text_preprocessor"
    /\ pc = [t \in Threads |-> "idle"]
    /\ x = [t \in Threads |-> NoneRef]
    /\ x_hashable = [t \in Threads |-> NoKey]
    /\ x_mapped = [t \in Threads |-> NoneRef]
    /\ idx = [t \in Threads |-> 0]
    /\ ret = [t \in Threads |-> NoneRef]
    /\ exc = [t \in Threads |-> "none"]
    /\ trace = [t \in Threads |-> <<>>]
    /\ hit = [t \in Threads |-> FALSE]
    /\ cache0 = [t \in Threads |-> <<>>]
    /\ nmap0 = [t \in Threads |-> 0]
    /\ nmap = 0
    /\ nmapok = 0

\* Calls that have started and may still reach line 92.
Pending == {t \in Threads : pc[t] \in {"key", "lookup", "copy"}}

\* A call on o that makes no copy: its key function raises, or its key is
\* cached already (and stays so, the cache having no eviction).
NeedsNoCopy(o) ==
    /\ memoize
    /\ LET k == MemoizeKey(keyfn, heap, lists, o)
       IN  k.exc # "none" \/ CacheHit(cache, k.key)

\* The model admits a call while the bound on copies leaves room for its copy.
Room(o) ==
    \/ Len(heap) + Cardinality(Pending) < Len(InputPoints) + MaxCopies
    \/ NeedsNoCopy(o)

Raise(t, e) ==
    /\ pc' = [pc EXCEPT ![t] = "raised"]
    /\ exc' = [exc EXCEPT ![t] = e]

\* Mutant of Begin: the key is computed whatever self.memoize says.
BeginAlwaysKeys(t, o) ==
    /\ pc[t] = "idle"
    /\ Room(o)
    /\ x' = [x EXCEPT ![t] = o]
    /\ pc' = [pc EXCEPT ![t] = "key"]
    /\ trace' = [trace EXCEPT ![t] = <<>>]
    /\ hit' = [hit EXCEPT ![t] = FALSE]
    /\ cache0' = [cache0 EXCEPT ![t] = cache]
    /\ nmap0' = [nmap0 EXCEPT ![t] = nmap]
    /\ UNCHANGED <<heap, lists, cache, conf, x_hashable, x_mapped, idx, ret, exc,
                   nmap, nmapok>>

\* The caller calls the preprocessor on data point o; the test of line 85.
Begin(t, o) ==
    /\ pc[t] = "idle"
    /\ Room(o)
    /\ x' = [x EXCEPT ![t] = o]
    /\ pc' = [pc EXCEPT ![t] = IF memoize THEN "key" ELSE "copy"]
    /\ trace' = [trace EXCEPT ![t] = <<>>]
    /\ hit' = [hit EXCEPT ![t] = FALSE]
    /\ cache0' = [cache0 EXCEPT ![t] = cache]
    /\ nmap0' = [nmap0 EXCEPT ![t] = nmap]
    /\ UNCHANGED <<heap, lists, cache, conf, x_hashable, x_mapped, idx, ret, exc,
                   nmap, nmapok>>

\* Mutant of KeyStep: a key function that raises is caught, and the call goes
\* on to compute without a key.
KeyStepSwallows(t) ==
    /\ pc[t] = "key"
    /\ LET k == MemoizeKey(keyfn, heap, lists, x[t]) IN
         /\ trace' = [trace EXCEPT ![t] = Append(@, <<"key", keyfn>>)]
         /\ IF k.exc # "none"
            THEN /\ pc' = [pc EXCEPT ![t] = "copy"]
                 /\ UNCHANGED x_hashable
            ELSE /\ x_hashable' = [x_hashable EXCEPT ![t] = <<k.key>>]
                 /\ pc' = [pc EXCEPT ![t] = "lookup"]
    /\ UNCHANGED <<heap, lists, cache, conf, x, x_mapped, idx, ret, exc,
                   hit, cache0, nmap0, nmap, nmapok>>

\* x_hashable = self._memoize_key(x), line 87
KeyStep(t) ==
    /\ pc[t] = "key"
    /\ LET k == MemoizeKey(keyfn, heap, lists, x[t]) IN
         /\ trace' = [trace EXCEPT ![t] = Append(@, <<"key", keyfn>>)]
         /\ IF k.exc # "none"
            THEN /\ Raise(t, k.exc)
                 /\ UNCHANGED x_hashable
            ELSE /\ x_hashable' = [x_hashable EXCEPT ![t] = <<k.key>>]
                 /\ pc' = [pc EXCEPT ![t] = "lookup"]
                 /\ UNCHANGED exc
    /\ UNCHANGED <<heap, lists, cache, conf, x, x_mapped, idx, ret,
                   hit, cache0, nmap0, nmap, nmapok>>

\* Mutant of Lookup: the cache is looked up but line 89 does not return.
LookupFallsThrough(t) ==
    /\ pc[t] = "lookup"
    /\ pc' = [pc EXCEPT ![t] = "copy"]
    /\ UNCHANGED <<heap, lists, cache, conf, x, x_hashable, x_mapped, idx, exc, ret,
                   ghost>>

\* Mutant of Lookup: a hit returns copy.deepcopy(self._cache[x_hashable]).
LookupReturnsCopy(t) ==
    /\ pc[t] = "lookup"
    /\ IF CacheHit(cache, Key(t))
       THEN /\ IF cache[Key(t)] = NoneRef
               THEN /\ ret' = [ret EXCEPT ![t] = NoneRef]
                    /\ UNCHANGED <<heap, lists>>
               ELSE LET c == DeepCopy(heap, lists, cache[Key(t)]) IN
                    /\ heap' = c.h
                    /\ lists' = c.l
                    /\ ret' = [ret EXCEPT ![t] = c.ref]
            /\ pc' = [pc EXCEPT ![t] = "done"]
            /\ hit' = [hit EXCEPT ![t] = TRUE]
       ELSE /\ pc' = [pc EXCEPT ![t] = "copy"]
            /\ UNCHANGED <<heap, lists, ret, hit>>
    /\ UNCHANGED <<cache, conf, x, x_hashable, x_mapped, idx, exc,
                   trace, cache0, nmap0, nmap, nmapok>>

\* if x_hashable in self._cache: return self._cache[x_hashable], lines 88-89
Lookup(t) ==
    /\ pc[t] = "lookup"
    /\ IF CacheHit(cache, Key(t))
       THEN /\ ret' = [ret EXCEPT ![t] = cache[Key(t)]]
            /\ pc' = [pc EXCEPT ![t] = "done"]
            /\ hit' = [hit EXCEPT ![t] = TRUE]
       ELSE /\ pc' = [pc EXCEPT ![t] = "copy"]
            /\ UNCHANGED <<ret, hit>>
    /\ UNCHANGED <<heap, lists, cache, conf, x, x_hashable, x_mapped, idx, exc,
                   trace, cache0, nmap0, nmap, nmapok>>

\* Mutant of Copy: the copy is put in the cache before the steps have run.
CopyCachesEarly(t) ==
    /\ pc[t] = "copy"
    /\ LET c == DeepCopy(heap, lists, x[t]) IN
         /\ heap' = c.h
         /\ lists' = c.l
         /\ x_mapped' = [x_mapped EXCEPT ![t] = c.ref]
         /\ cache' = IF memoize THEN CacheStore(cache, Key(t), c.ref) ELSE cache
    /\ idx' = [idx EXCEPT ![t] = 1]
    /\ pc' = [pc EXCEPT ![t] = "pre"]
    /\ trace' = [trace EXCEPT ![t] = Append(@, <<"copy", "deepcopy">>)]
    /\ UNCHANGED <<conf, x, x_hashable, ret, exc,
                   hit, cache0, nmap0, nmap, nmapok>>

\* x_mapped = copy.deepcopy(x), line 92
Copy(t) ==
    /\ pc[t] = "copy"
    /\ LET c == DeepCopy(heap, lists, x[t]) IN
         /\ heap' = c.h
         /\ lists' = c.l
         /\ x_mapped' = [x_mapped EXCEPT ![t] = c.ref]
    /\ idx' = [idx EXCEPT ![t] = 1]
    /\ pc' = [pc EXCEPT ![t] = "pre"]
    /\ trace' = [trace EXCEPT ![t] = Append(@, <<"copy", "deepcopy">>)]
    /\ UNCHANGED <<cache, conf, x, x_hashable, ret, exc,
                   hit, cache0, nmap0, nmap, nmapok>>

\* Mutant of PreStep: the loop runs over reversed(self._pre).
PreStepReversed(t) ==
    /\ pc[t] = "pre"
    /\ idx[t] <= Len(pre)
    /\ LET fn == pre[Len(pre) + 1 - idx[t]]
           r == Apply(fn, heap, lists, x_mapped[t]) IN
         /\ heap' = r.h
         /\ lists' = r.l
         /\ trace' = [trace EXCEPT ![t] = Append(@, <<"pre", fn>>)]
         /\ IF r.exc # "none"
            THEN /\ Raise(t, r.exc)
                 /\ UNCHANGED <<x_mapped, idx>>
            ELSE /\ x_mapped' = [x_mapped EXCEPT ![t] = r.ret]
                 /\ idx' = [idx EXCEPT ![t] = @ + 1]
                 /\ UNCHANGED <<pc, exc>>
    /\ UNCHANGED <<cache, conf, x, x_hashable, ret,
                   hit, cache0, nmap0, nmap, nmapok>>

\* Mutant of PreStep: the loop consumes the list, mapper = self._pre.pop(0).
PreStepPops(t) ==
    /\ pc[t] = "pre"
    /\ pre # <<>>
    /\ LET r == Apply(Head(pre), heap, lists, x_mapped[t]) IN
         /\ heap' = r.h
         /\ lists' = r.l
         /\ pre' = Tail(pre)
         /\ trace' = [trace EXCEPT ![t] = Append(@, <<"pre", Head(pre)>>)]
         /\ IF r.exc # "none"
            THEN /\ Raise(t, r.exc)
                 /\ UNCHANGED x_mapped
            ELSE /\ x_mapped' = [x_mapped EXCEPT ![t] = r.ret]
                 /\ UNCHANGED <<pc, exc>>
    /\ UNCHANGED <<cache, memoize, mapfn, keyfn, name, x, x_hashable, idx, ret,
                   hit, cache0, nmap0, nmap, nmapok>>

\* Mutant of PreStep: the loop never moves on from its first pre-step.
PreStepStuck(t) ==
    /\ pc[t] = "pre"
    /\ idx[t] <= Len(pre)
    /\ LET r == Apply(pre[idx[t]], heap, lists, x_mapped[t]) IN
         /\ heap' = r.h
         /\ lists' = r.l
         /\ trace' = [trace EXCEPT ![t] = Append(@, <<"pre", pre[idx[t]]>>)]
         /\ IF r.exc # "none"
            THEN /\ Raise(t, r.exc)
                 /\ UNCHANGED x_mapped
            ELSE /\ x_mapped' = [x_mapped EXCEPT ![t] = r.ret]
                 /\ UNCHANGED <<pc, exc>>
    /\ UNCHANGED <<cache, conf, x, x_hashable, idx, ret,
                   hit, cache0, nmap0, nmap, nmapok>>

\* One iteration of: for mapper in self._pre: x_mapped = mapper(x_mapped)
PreStep(t) ==
    /\ pc[t] = "pre"
    /\ idx[t] <= Len(pre)
    /\ LET r == Apply(pre[idx[t]], heap, lists, x_mapped[t]) IN
         /\ heap' = r.h
         /\ lists' = r.l
         /\ trace' = [trace EXCEPT ![t] = Append(@, <<"pre", pre[idx[t]]>>)]
         /\ IF r.exc # "none"
            THEN /\ Raise(t, r.exc)
                 /\ UNCHANGED <<x_mapped, idx>>
            ELSE /\ x_mapped' = [x_mapped EXCEPT ![t] = r.ret]
                 /\ idx' = [idx EXCEPT ![t] = @ + 1]
                 /\ UNCHANGED <<pc, exc>>
    /\ UNCHANGED <<cache, conf, x, x_hashable, ret,
                   hit, cache0, nmap0, nmap, nmapok>>

\* x_mapped = self._generate_mapped_data_point(x_mapped), line 96, and the
\* test of line 97
Map(t) ==
    /\ pc[t] = "pre"
    /\ idx[t] > Len(pre)
    /\ LET r == Apply(mapfn, heap, lists, x_mapped[t]) IN
         /\ heap' = r.h
         /\ lists' = r.l
         /\ trace' = [trace EXCEPT ![t] = Append(@, <<"map", mapfn>>)]
         /\ nmap' = nmap + 1
         /\ IF r.exc # "none"
            THEN /\ Raise(t, r.exc)
                 /\ UNCHANGED <<x_mapped, nmapok>>
            ELSE /\ x_mapped' = [x_mapped EXCEPT ![t] = r.ret]
                 /\ pc' = [pc EXCEPT ![t] = IF memoize THEN "store" ELSE "return"]
                 /\ nmapok' = nmapok + 1
                 /\ UNCHANGED exc
    /\ UNCHANGED <<cache, conf, x, x_hashable, idx, ret,
                   hit, cache0, nmap0>>

\* Mutant of Store: the key is computed again, from the transformed copy.
StoreRecomputedKey(t) ==
    /\ pc[t] = "store"
    /\ LET k == IF x_mapped[t] = NoneRef
                THEN [key |-> Key(t), exc |-> "none"]
                ELSE MemoizeKey(keyfn, heap, lists, x_mapped[t]) IN
         /\ trace' = [trace EXCEPT ![t] = Append(@, <<"store", "cache">>)]
         /\ IF k.exc # "none"
            THEN /\ Raise(t, k.exc)
                 /\ UNCHANGED cache
            ELSE /\ cache' = CacheStore(cache, k.key, x_mapped[t])
                 /\ pc' = [pc EXCEPT ![t] = "return"]
                 /\ UNCHANGED exc
    /\ UNCHANGED <<heap, lists, conf, x, x_hashable, x_mapped, idx, ret,
                   hit, cache0, nmap0, nmap, nmapok>>

\* Mutant of Store: a None result is not cached,
\* if self.memoize and x_mapped is not None.
StoreSkipsNone(t) ==
    /\ pc[t] = "store"
    /\ cache' = IF x_mapped[t] = NoneRef THEN cache
                ELSE CacheStore(cache, Key(t), x_mapped[t])
    /\ pc' = [pc EXCEPT ![t] = "return"]
    /\ trace' = [trace EXCEPT ![t] = Append(@, <<"store", "cache">>)]
    /\ UNCHANGED <<heap, lists, conf, x, x_hashable, x_mapped, idx, ret, exc,
                   hit, cache0, nmap0, nmap, nmapok>>

\* self._cache[x_hashable] = x_mapped, line 98
Store(t) ==
    /\ pc[t] = "store"
    /\ cache' = CacheStore(cache, Key(t), x_mapped[t])
    /\ pc' = [pc EXCEPT ![t] = "return"]
    /\ trace' = [trace EXCEPT ![t] = Append(@, <<"store", "cache">>)]
    /\ UNCHANGED <<heap, lists, conf, x, x_hashable, x_mapped, idx, ret, exc,
                   hit, cache0, nmap0, nmap, nmapok>>

\* Mutant of Return: with memoization the call returns what the cache holds
\* under its key, return self._cache[x_hashable].
ReturnFromCache(t) ==
    /\ pc[t] = "return"
    /\ ret' = [ret EXCEPT ![t] = IF memoize THEN cache[Key(t)] ELSE x_mapped[t]]
    /\ pc' = [pc EXCEPT ![t] = "done"]
    /\ UNCHANGED <<heap, lists, cache, conf, x, x_hashable, x_mapped, idx, exc, ghost>>

\* return x_mapped, line 99
Return(t) ==
    /\ pc[t] = "return"
    /\ ret' = [ret EXCEPT ![t] = x_mapped[t]]
    /\ pc' = [pc EXCEPT ![t] = "done"]
    /\ UNCHANGED <<heap, lists, cache, conf, x, x_hashable, x_mapped, idx, exc, ghost>>

\* The locals of a call that is over are gone.
Reset(t) ==
    /\ pc' = [pc EXCEPT ![t] = "idle"]
    /\ x' = [x EXCEPT ![t] = NoneRef]
    /\ x_hashable' = [x_hashable EXCEPT ![t] = NoKey]
    /\ x_mapped' = [x_mapped EXCEPT ![t] = NoneRef]
    /\ idx' = [idx EXCEPT ![t] = 0]
    /\ ret' = [ret EXCEPT ![t] = NoneRef]
    /\ exc' = [exc EXCEPT ![t] = "none"]
    /\ trace' = [trace EXCEPT ![t] = <<>>]
    /\ hit' = [hit EXCEPT ![t] = FALSE]
    /\ cache0' = [cache0 EXCEPT ![t] = <<>>]
    /\ nmap0' = [nmap0 EXCEPT ![t] = 0]

\* The caller takes the result, or catches the exception, and goes on.
Finish(t) ==
    /\ pc[t] \in {"done", "raised"}
    /\ Reset(t)
    /\ UNCHANGED <<heap, lists, cache, conf, nmap, nmapok>>

\* The caller changes a field of the data point it was handed, and goes on.
CallerMutate(t) ==
    /\ pc[t] = "done"
    /\ ret[t] # NoneRef
    /\ heap' = [heap EXCEPT ![ret[t]].body = "M"]
    /\ Reset(t)
    /\ UNCHANGED <<lists, cache, conf, nmap, nmapok>>

Idle == \A t \in Threads : pc[t] = "idle"

\* Single-threaded use: a call starts when no other call is running.
BeginAlone(t, o) == t = Main /\ Idle /\ Begin(t, o)

Step(t) ==
    \/ KeyStep(t)
    \/ Lookup(t)
    \/ Copy(t)
    \/ PreStep(t)
    \/ Map(t)
    \/ Store(t)
    \/ Return(t)
    \/ Finish(t)
    \/ CallerMutate(t)

Next ==
    \E t \in Threads :
        \/ \E o \in Inputs : BeginAlone(t, o)
        \/ Step(t)

Spec == Init /\ [][Next]_vars

\* The steps of __call__ itself, lines 85-99.
CallStep(t) ==
    \/ KeyStep(t)
    \/ Lookup(t)
    \/ Copy(t)
    \/ PreStep(t)
    \/ Map(t)
    \/ Store(t)
    \/ Return(t)

\* Single-threaded use in which a call that can take its next step takes it:
\* the key function, the pre-steps and the mapping function return or raise,
\* and nothing in __call__ waits.
SpecFair == Spec /\ WF_vars(CallStep(Main))

\* The same instance called from several threads, no lock (section 5).  The
\* threads call it on the two data points that share a title.
RaceInputs == {o \in Inputs : InputPoints[o].title = "A"}

NextThreads ==
    \E t \in Threads :
        \/ \E o \in RaceInputs : Begin(t, o)
        \/ Step(t)

\* The race is between the lookup and the store of memoizing instances whose
\* key function returns; the threads are explored for those, with at most
\* one pre-step.
InitThreads == Init /\ memoize /\ keyfn # "article" /\ Len(pre) <= 1

SpecThreads == InitThreads /\ [][NextThreads]_vars

(***************************************************************************)
(* Properties.                                                             *)
(***************************************************************************)
Original(o) == DeepValue(InputPoints, InputLists, o)

Current(r) == DeepValue(heap, lists, r)

\* The functions fns applied in order, each to the previous one's result,
\* up to the first that raises.
RECURSIVE Chain(_, _)
Chain(fns, o) ==
    IF fns = <<>> \/ o.exc # "none" THEN o
    ELSE Chain(Tail(fns), Apply(Head(fns), o.h, o.l, o.ret))

\* g(fn(...f1(copy(o))...)) for the pre-steps fns and the mapping function g,
\* computed on the caller's data point o as it was handed over.
Composed(fns, g, o) ==
    LET c == DeepCopy(InputPoints, InputLists, o)
    IN  Chain(fns \o <<g>>, Outcome(c.h, c.l, c.ref, "none"))

ComposedValue(fns, g, o) ==
    LET e == Composed(fns, g, o) IN DeepValue(e.h, e.l, e.ret)

Running(t) == pc[t] \in {"pre", "store", "return"}

Missed(t) == pc[t] = "done" /\ ~hit[t]

C3_HitReturnsCached ==
    \A t \in Threads :
        (memoize /\ pc[t] = "done" /\ Key(t) \in DOMAIN cache0[t]) =>
            /\ hit[t]
            /\ ret[t] = cache0[t][Key(t)]
            /\ nmap = nmap0[t]
            /\ trace[t] = << <<"key", keyfn>> >>

C3_Witness ==
    \E t \in Threads :
        /\ memoize /\ pc[t] = "done" /\ hit[t]
        /\ ret[t] # NoneRef /\ nmap = 1

\* C4: a miss that computes None stores None under its key, and a call that
\* finds None under its key returns None and invokes neither a pre-step nor
\* the mapping function.
C4_NoneIsCached ==
    \A t \in Threads :
        /\ (memoize /\ Missed(t) /\ ret[t] = NoneRef) =>
              (Key(t) \in DOMAIN cache /\ cache[Key(t)] = NoneRef)
        /\ (memoize /\ pc[t] = "done" /\ Key(t) \in DOMAIN cache0[t]
                /\ cache0[t][Key(t)] = NoneRef) =>
              (hit[t] /\ ret[t] = NoneRef /\ nmap = nmap0[t]
                /\ \A n \in 1..Len(trace[t]) : trace[t][n][1] \notin {"copy", "pre", "map"})

C4_Witness ==
    \E t \in Threads :
        /\ memoize /\ pc[t] = "done" /\ hit[t]
        /\ ret[t] = NoneRef /\ nmap = 1 /\ nmapok = 1

Invoked(t) == SelectSeq(trace[t], LAMBDA e : e[1] \in {"copy", "pre", "map"})

\* C5: a call that did not hit invoked the copy, then every pre-step once in
\* list order, then the mapping function, and returns
\* g(fn(...f1(copy(x))...)); with no pre-steps that is g(copy(x)); and with
\* the pre-steps combine and retitle, which are order-sensitive on a data
\* point not yet titled "C", the result differs from what the swapped list
\* gives.
C5_ChainInOrder ==
    \A t \in Threads :
        Missed(t) =>
            /\ Invoked(t) = << <<"copy", "deepcopy">> >>
                              \o [n \in 1..Len(pre) |-> <<"pre", pre[n]>>]
                              \o << <<"map", mapfn>> >>
            /\ Current(ret[t]) = ComposedValue(pre, mapfn, x[t])
            /\ pre = <<>> =>
                 LET c == DeepCopy(InputPoints, InputLists, x[t])
                     g == Apply(mapfn, c.h, c.l, c.ref)
                 IN  Current(ret[t]) = DeepValue(g.h, g.l, g.ret)
            /\ (Len(pre) = 2 /\ {pre[1], pre[2]} = {"combine", "retitle"}
                    /\ mapfn = "retitle" /\ heap[x[t]].title # "C") =>
                 Current(ret[t]) # ComposedValue(<<pre[2], pre[1]>>, mapfn, x[t])

C5_Witness ==
    \E t \in Threads :
        /\ Missed(t) /\ pre = <<"retitle", "combine">> /\ mapfn = "retitle"
        /\ x[t] = 1 /\ heap[ret[t]].article = "C B"

\* C6: a call in which a pre-step or the mapping function raised raises that
\* function's exception, and leaves the cache as it was when the call
\* started, with no entry under the call's key.
C6_RaiseLeavesCache ==
    \A t \in Threads :
        (pc[t] = "raised" /\ Invoked(t) # <<>>) =>
            /\ exc[t] = Composed(pre, mapfn, x[t]).exc
            /\ exc[t] # "none"
            /\ cache = cache0[t]
            /\ memoize => Key(t) \notin DOMAIN cache

C6_Witness ==
    \E t \in Threads :
        /\ pc[t] = "raised" /\ memoize /\ exc[t] = "ValueError"
        /\ DOMAIN cache # {} /\ Invoked(t) # <<>>

Storing(k) == \E t \in Threads : pc[t] = "store" /\ Key(t) = k

\* C8: no step of a call changes the name, the pre-steps, the memoize flag
\* (or the key and mapping functions); with memoization disabled the cache
\* never changes; with it enabled a step changes or adds an entry only under
\* the key of the call that is at its store, and a finished call has left
\* every entry but the one under its own key as it was when it started.
C8_OnlyCacheChanges ==
    /\ [][/\ conf' = conf
          /\ ~memoize => cache' = cache
          /\ \A k \in DOMAIN cache :
                k \notin DOMAIN cache' \/ cache'[k] # cache[k] => Storing(k)
          /\ \A k \in DOMAIN cache' \ DOMAIN cache : Storing(k)]_vars
    /\ [](\A t \in Threads :
            pc[t] \in {"done", "raised"} =>
                \A k \in DOMAIN cache \cup DOMAIN cache0[t] :
                    (x_hashable[t] = NoKey \/ k # Key(t)) =>
                        /\ k \in DOMAIN cache /\ k \in DOMAIN cache0[t]
                        /\ cache[k] = cache0[t][k])

C8_Witness ==
    \E t \in Threads :
        /\ memoize /\ Missed(t) /\ Len(pre) = 2
        /\ cache0[t] # <<>> /\ cache # cache0[t]

\* C9: no step removes a key from the cache.
C9_NoEviction == [][DOMAIN cache \subseteq DOMAIN cache']_vars

C9_Witness ==
    \E t \in Threads :
        /\ pc[t] = "done" /\ hit[t]
        /\ Cardinality(DOMAIN cache) = 2

\* C10: a call that missed computed its key once, first, from x as the
\* caller handed it over; the store comes after the mapping function and
\* before the return, under that key; and when the call has returned the
\* key is in the cache and maps to the returned object.
C10_StoredUnderOriginalKey ==
    \A t \in Threads :
        /\ (memoize /\ pc[t] \in {"return", "done"} /\ ~hit[t]) =>
              /\ Key(t) = MemoizeKey(keyfn, InputPoints, InputLists, x[t]).key
              /\ Key(t) \in DOMAIN cache
              /\ cache[Key(t)] = x_mapped[t]
              /\ trace[t][1] = <<"key", keyfn>>
              /\ trace[t][Len(trace[t]) - 1] = <<"map", mapfn>>
              /\ trace[t][Len(trace[t])] = <<"store", "cache">>
              /\ Len(SelectSeq(trace[t], LAMBDA e : e[1] \in {"key", "store"})) = 2
        /\ (memoize /\ Missed(t)) => cache[Key(t)] = ret[t]

C10_Witness ==
    \E t \in Threads :
        /\ memoize /\ Missed(t) /\ ret[t] # NoneRef /\ keyfn = "title"
        /\ MemoizeKey(keyfn, heap, lists, ret[t]).key # Key(t)

\* C7 as stated: a write under a key the cache already holds stores the value
\* the cache holds, and two calls that returned with the same key returned
\* the same object, as they would have one after the other.
C7_WritesIdempotent ==
    /\ \A t \in Threads :
         (pc[t] = "store" /\ Key(t) \in DOMAIN cache) =>
            Current(x_mapped[t]) = Current(cache[Key(t)])
    /\ \A t, u \in Threads :
         (pc[t] = "done" /\ pc[u] = "done" /\ Key(t) = Key(u)) => ret[t] = ret[u]

\* C7 as amended: under the race each call that missed stores and returns
\* the object it computed itself, whose value at the store is
\* g(fn(...f1(copy(x))...)) for its own input, so that writes under one key
\* by calls on inputs with equal fields store equal values; a call that hit
\* computed nothing; and the cache holds only None or computed objects,
\* never a caller's data point.
C7_RaceStoresOwnResult ==
    /\ \A t \in Threads :
         /\ pc[t] = "store" => Current(x_mapped[t]) = ComposedValue(pre, mapfn, x[t])
         /\ Missed(t) =>
               /\ ret[t] = x_mapped[t]
               /\ Len(SelectSeq(trace[t], LAMBDA e : e[1] = "map")) = 1
         /\ (pc[t] = "done" /\ hit[t]) => Invoked(t) = <<>>
    /\ \A t, u \in Threads :
         (pc[t] = "store" /\ pc[u] = "store" /\ Key(t) = Key(u)
             /\ Original(x[t]) = Original(x[u])) =>
            Current(x_mapped[t]) = Current(x_mapped[u])
    /\ \A k \in DOMAIN cache : cache[k] \notin Inputs

\* Both threads missed under one key: two computations, two objects, the
\* cache holding the later one.
C7_Witness ==
    \E t, u \in Threads :
        /\ t # u /\ Missed(t) /\ Missed(u) /\ Key(t) = Key(u)
        /\ x[t] = x[u] /\ ret[t] # ret[u] /\ nmap = 2
        /\ cache[Key(t)] = ret[u]

KeyRaises(o) == MemoizeKey(keyfn, InputPoints, InputLists, o).exc # "none"

\* C11: with memoization enabled, a call on a data point whose key function
\* raises never gets past the key computation: it raises the key function's
\* exception with no copy made, no pre-step and no mapping function invoked,
\* and the cache as it was when the call started.
C11_KeyRaisesFirst ==
    \A t \in Threads :
        (memoize /\ pc[t] # "idle" /\ KeyRaises(x[t])) =>
            /\ pc[t] \in {"key", "raised"}
            /\ x_mapped[t] = NoneRef
            /\ Invoked(t) = <<>>
            /\ nmap = nmap0[t]
            /\ cache = cache0[t]
            /\ pc[t] = "raised" =>
                 /\ exc[t] = MemoizeKey(keyfn, InputPoints, InputLists, x[t]).exc
                 /\ trace[t] = << <<"key", keyfn>> >>
                 /\ x_hashable[t] = NoKey

C11_Witness ==
    \E t \in Threads :
        /\ memoize /\ pc[t] = "raised" /\ KeyRaises(x[t])
        /\ exc[t] = "AttributeError" /\ cache # <<>>

\* C12: with memoization disabled no call computes a key or reads the cache,
\* which stays empty: every call that returns has made its copy and invoked
\* every pre-step and the mapping function, the counter moving by one, and
\* returns None or the object it has just made, the newest one.
C12_NoMemoRecomputes ==
    ~memoize =>
        /\ cache = <<>>
        /\ \A t \in Threads :
             /\ x_hashable[t] = NoKey
             /\ ~hit[t]
             /\ \A n \in 1..Len(trace[t]) : trace[t][n][1] \notin {"key", "store"}
             /\ pc[t] = "done" =>
                  /\ Len(Invoked(t)) = Len(pre) + 2
                  /\ nmap = nmap0[t] + 1
                  /\ ret[t] \in {NoneRef, Len(heap)}

\* The second call on data point 1: a second copy, a second computation.
C12_Witness ==
    \E t \in Threads :
        /\ ~memoize /\ pc[t] = "done" /\ x[t] = 1
        /\ pre = <<>> /\ mapfn = "combine" /\ nmap = 2
        /\ ret[t] = Len(InputPoints) + 2
        /\ heap[ret[t] - 1].article = "A B" /\ heap[ret[t]].article = "A B"

InCall(t) == pc[t] \in {"key", "lookup", "copy", "pre", "store", "return"}

Count(t, kind) == Len(SelectSeq(trace[t], LAMBDA e : e[1] = kind))

\* C13: a call takes at most one key computation, one copy, one invocation
\* per pre-step, one invocation of the mapping function and one cache write,
\* and a call that has started (in single-threaded use, by Main) does return
\* or raise.
C13_CallCompletes ==
    /\ [](\A t \in Threads :
            /\ Count(t, "key") <= 1
            /\ Count(t, "copy") <= 1
            /\ Count(t, "pre") <= Len(pre)
            /\ Count(t, "map") <= 1
            /\ Count(t, "store") <= 1
            /\ Len(trace[t]) <= Len(pre) + 4)
    /\ InCall(Main) ~> pc[Main] \in {"done", "raised"}

\* The longest call: a miss with every step taken.
C13_Witness ==
    \E t \in Threads :
        /\ Missed(t) /\ Len(pre) = MaxPre
        /\ Len(trace[t]) = Len(pre) + 4

\* C14: in single-threaded use a call reaches its store only with its key
\* absent from the cache, as it was when the call started, and no step
\* changes the object an existing key maps to.
C14_WrittenOnce ==
    /\ [](\A t \in Threads :
            pc[t] = "store" =>
                (Key(t) \notin DOMAIN cache /\ Key(t) \notin DOMAIN cache0[t]))
    /\ [][\A k \in DOMAIN cache : k \in DOMAIN cache' /\ cache'[k] = cache[k]]_vars

\* A second key is stored while the first keeps its object, which a later
\* call gets back.
C14_Witness ==
    \E t \in Threads :
        /\ pc[t] = "done" /\ hit[t] /\ ret[t] # NoneRef
        /\ Cardinality(DOMAIN cache) = 2
        /\ ret[t] = Len(InputPoints) + 1

\* C15: in single-threaded use with memoization enabled, whenever no call is
\* between its mapping function and its store, the cache has as many entries
\* as the mapping function has invocations that returned; a call at its store
\* is about to add the one entry of its own invocation.
C15_EntriesCountComputations ==
    memoize =>
        /\ (\A t \in Threads : pc[t] # "store") => Cardinality(DOMAIN cache) = nmapok
        /\ (\E t \in Threads : pc[t] = "store") => Cardinality(DOMAIN cache) + 1 = nmapok

\* Two entries from two computations, a None among the results.
C15_Witness ==
    /\ memoize /\ Idle
    /\ Cardinality(DOMAIN cache) = 2 /\ nmapok = 2
    /\ \E k \in DOMAIN cache : cache[k] = NoneRef

\* C16: in single-threaded use a call with memoization enabled returns the
\* very object the cache holds under its key, on a hit as on the miss that
\* stored it, and a hit makes no object of its own: what it returns is a
\* result computed earlier, with the fields that object has now, a caller's
\* changes included.
C16_ResultsShared ==
    \A t \in Threads :
        (memoize /\ pc[t] = "done") =>
            /\ ret[t] = cache[Key(t)]
            /\ hit[t] =>
                 /\ x_mapped[t] = NoneRef
                 /\ ret[t] \in {NoneRef} \cup (Len(InputPoints) + 1 .. Len(heap))
                 /\ Current(ret[t]) = Current(cache0[t][Key(t)])

\* A hit that returns the object an earlier caller changed.
C16_Witness ==
    \E t \in Threads :
        /\ memoize /\ pc[t] = "done" /\ hit[t] /\ ret[t] # NoneRef
        /\ heap[ret[t]].body = "M"
        /\ heap[x[t]].body # "M"
====
